---- MODULE Spec2Model ----
(***************************************************************************)
(* Model of main.py: the Streamlit script that stages uploads in a         *)
(* temporary directory, transcribes them with Whisper, synthesizes speech  *)
(* with gTTS, offers a combined CSV ledger, and has a custom text-to-speech*)
(* form.  One behaviour is a series of script runs; every run executes the *)
(* script top to bottom.  The transcription model, gTTS and the file       *)
(* system are external: each call either returns or raises, chosen         *)
(* nondeterministically.                                                   *)
(***************************************************************************)
EXTENDS Integers, Sequences, FiniteSets, TLC

\* Largest number of files in one upload batch.
MaxUploads == 2
\* Longest custom text, in characters.
MaxTextLen == 2

(***************************************************************************)
(* Values                                                                  *)
(***************************************************************************)

\* File names are sequences of tokens; "." is the extension separator.
\* The uploader only accepts names ending in .wav, .mp3 or .mp4.
Names ==
    { <<"a", ".", "wav">>, <<"b", ".", "mp4">>, <<"a", "_tts", ".", "mp3">> }

\* Characters of the custom text area: a blank and a letter.
Chars == {" ", "x"}

Whitespace == {" ", "\n", "\t", "\r"}

Accents == {"en", "en-us", "en-uk", "en-au"}

\* gTTS's default language, used by the batch flow's gTTS(transcript).
DefaultLang == "en"

csv_filename == <<"all_transcripts", ".", "csv">>

custom_filename == <<"custom_tts", ".", "mp3">>

Header == <<"Number", "Filename", "Transcript">>

BoundedSeq(S, n) == UNION {[1..k -> S] : k \in 0..n}

Batches == BoundedSeq(Names, MaxUploads)

Texts == BoundedSeq(Chars, MaxTextLen)

\* The text Whisper returns for a file: an opaque value per file.
WhisperText(name) == <<"text of">> \o name

(***************************************************************************)
(* Pure helpers                                                            *)
(***************************************************************************)

RECURSIVE lstrip(_)
lstrip(s) ==
    IF s # <<>> /\ Head(s) \in Whitespace THEN lstrip(Tail(s)) ELSE s

RECURSIVE rstrip(_)
rstrip(s) ==
    IF s # <<>> /\ s[Len(s)] \in Whitespace
    THEN rstrip(SubSeq(s, 1, Len(s) - 1))
    ELSE s

\* A bug that validates the raw text instead of the stripped text.
strip_identity(s) == s

\* str.strip(): drop leading and trailing whitespace.
strip(s) == rstrip(lstrip(s))

\* os.path.splitext(name)[0]: everything before the last dot, where dots
\* that lead the name do not start an extension.
splitext_stem(name) ==
    LET dots == {k \in 1..Len(name) :
                    /\ name[k] = "."
                    /\ \E j \in 1..(k - 1) : name[j] # "."}
    IN  IF dots = {} THEN name
        ELSE LET last == CHOOSE k \in dots : \A m \in dots : m <= k
             IN  SubSeq(name, 1, last - 1)

\* f"{filename_stem}_tts.mp3"
tts_filename(name) == splitext_stem(name) \o <<"_tts", ".", "mp3">>

\* os.path.join(tmpdir, name) for a name without separators.
join(dir, name) == <<dir, name>>

DirOf(path) == path[1]

\* Directory names mkdtemp may draw from.
DirIds == 1..4

\* tempfile.TemporaryDirectory(): a directory that did not exist before.
mkdtemp(fsys, live) ==
    CHOOSE d \in DirIds :
        /\ d # live
        /\ \A p \in DOMAIN fsys : DirOf(p) # d
        /\ \A e \in DirIds :
              (e # live /\ \A p \in DOMAIN fsys : DirOf(p) # e) => d <= e

\* open(path, "w"/"wb") followed by a write: creates or replaces the file.
write(fsys, path, content) ==
    [p \in (DOMAIN fsys) \cup {path} |-> IF p = path THEN content ELSE fsys[p]]

\* A bug that leaves the directory's files behind.
TemporaryDirectoryExit_leak(fsys, dir) == fsys

\* TemporaryDirectory.__exit__: recursive removal of the directory.
TemporaryDirectoryExit(fsys, dir) ==
    [p \in {q \in DOMAIN fsys : DirOf(q) # dir} |-> fsys[p]]

\* A bug that inserts the new row at the front of the ledger.
LedgerAppend_front(rows, n, name, text) == <<<<n, name, text>>>> \o rows

\* Success-only numbering: the row's number is its position in the ledger.
LedgerAppend_renumber(rows, n, name, text) ==
    Append(rows, <<Len(rows) + 1, name, text>>)

\* transcripts.append([i, uploaded_file.name, transcript])
LedgerAppend(rows, n, name, text) == Append(rows, <<n, name, text>>)

\* csv.writer.writerow: every cell is written as its string form.
writerow(row) == <<ToString(row[1]), row[2], row[3]>>

\* writer.writerow(header); writer.writerows(transcripts)
csv_serialize(rows) == <<Header>> \o [k \in 1..Len(rows) |-> writerow(rows[k])]

(***************************************************************************)
(* State                                                                   *)
(***************************************************************************)

VARIABLES
    pc,               \* position of the script run
    uploaded_files,   \* st.file_uploader's value for this run
    i,                \* loop counter of enumerate(uploaded_files, start=1)
    transcripts,      \* the ledger rows [i, name, transcript]
    transcript,       \* result["text"] of the current iteration
    tmpdir,           \* the live temporary directory, 0 when there is none
    fs,               \* files under the temporary directories: path -> content
    custom_text,      \* st.text_area's value
    clicked,          \* st.button's value
    errors,           \* file names shown by st.error in the batch loop
    audio_downloads,  \* per-file download buttons offered
    csv_downloads,    \* ledger downloads offered, each the CSV's rows
    warnings,         \* st.warning calls of the custom form
    custom_results,   \* outcome of the custom form's try block
    transcribe_calls, \* upload indices passed to model.transcribe
    gtts_calls,       \* gTTS(...) invocations
    outcomes,         \* per finished iteration: "ok" or the error raised
    abort_cause       \* the uncaught error that ended the run, or "none"

vars ==
    <<pc, uploaded_files, i, transcripts, transcript, tmpdir, fs, custom_text,
      clicked, errors, audio_downloads, csv_downloads, warnings,
      custom_results, transcribe_calls, gtts_calls, outcomes, abort_cause>>

EmptyFs == [p \in {} |-> 0]

input_filepath == join(tmpdir, uploaded_files[i])

tts_filepath == join(tmpdir, tts_filename(uploaded_files[i]))

Init ==
    /\ pc = "idle"
    /\ uploaded_files = <<>>
    /\ i = 0
    /\ transcripts = <<>>
    /\ transcript = <<>>
    /\ tmpdir = 0
    /\ fs = EmptyFs
    /\ custom_text = <<>>
    /\ clicked = FALSE
    /\ errors = <<>>
    /\ audio_downloads = <<>>
    /\ csv_downloads = <<>>
    /\ warnings = 0
    /\ custom_results = <<>>
    /\ transcribe_calls = <<>>
    /\ gtts_calls = <<>>
    /\ outcomes = <<>>
    /\ abort_cause = "none"

(***************************************************************************)
(* The batch section                                                       *)
(***************************************************************************)

\* A user interaction reruns the script from the top with a fresh page.
\* A non-empty upload list enters the with block and the loop's first
\* iteration; an empty one skips to the custom form.
Rerun(ups) ==
    /\ pc \in {"idle", "aborted"}
    /\ uploaded_files' = ups
    /\ transcripts' = <<>>
    /\ transcript' = <<>>
    /\ custom_text' = <<>>
    /\ clicked' = FALSE
    /\ errors' = <<>>
    /\ audio_downloads' = <<>>
    /\ csv_downloads' = <<>>
    /\ warnings' = 0
    /\ custom_results' = <<>>
    /\ transcribe_calls' = <<>>
    /\ gtts_calls' = <<>>
    /\ outcomes' = <<>>
    /\ abort_cause' = "none"
    /\ fs' = fs
    /\ IF ups # <<>>
       THEN /\ tmpdir' = mkdtemp(fs, tmpdir)
            /\ i' = 1
            /\ pc' = "stage"
       ELSE /\ tmpdir' = 0
            /\ i' = 0
            /\ pc' = "custom"

\* The for statement after an iteration's body: the next upload, or the
\* code after the loop.
NextIteration ==
    IF i < Len(uploaded_files)
    THEN i' = i + 1 /\ pc' = "stage"
    ELSE i' = i /\ pc' = "csv"

\* An exception that no handler catches leaves the with block, whose exit
\* removes the temporary directory, and ends the script run.
PropagateOut(cause, fsys) ==
    /\ fs' = TemporaryDirectoryExit(fsys, tmpdir)
    /\ tmpdir' = 0
    /\ pc' = "aborted"
    /\ abort_cause' = cause
    /\ UNCHANGED <<i, transcripts, errors, outcomes>>

\* A loop without the try/except: the exception ends the run.
ExceptHandler_reraise(kind, fsys) == PropagateOut(kind, fsys)

\* A handler that rolls the current file's row back.
ExceptHandler_rollback(kind, fsys) ==
    /\ fs' = fsys
    /\ errors' = Append(errors, uploaded_files[i])
    /\ outcomes' = Append(outcomes, kind)
    /\ transcripts' = SelectSeq(transcripts, LAMBDA r : r[1] # i)
    /\ NextIteration
    /\ UNCHANGED <<tmpdir, abort_cause>>

\* except Exception as e: st.error(... uploaded_file.name ...), then the
\* loop goes on.
ExceptHandler(kind, fsys) ==
    /\ fs' = fsys
    /\ errors' = Append(errors, uploaded_files[i])
    /\ outcomes' = Append(outcomes, kind)
    /\ transcripts' = transcripts
    /\ NextIteration
    /\ UNCHANGED <<tmpdir, abort_cause>>

\* Step 1 of an iteration, outside the try block: write the upload's bytes
\* to input_filepath.
Stage(ok) ==
    /\ pc = "stage"
    /\ IF ok
       THEN /\ fs' = write(fs, input_filepath, [kind |-> "upload", of |-> i])
            /\ pc' = "transcribe"
            /\ UNCHANGED <<i, transcripts, errors, outcomes, tmpdir, abort_cause>>
       ELSE PropagateOut("StagingError", fs)
    /\ UNCHANGED <<uploaded_files, transcript, custom_text, clicked,
                   audio_downloads, csv_downloads, warnings, custom_results,
                   transcribe_calls, gtts_calls>>

\* A bug that records the row before the transcription call returns.
Transcribe_append_first(ok) ==
    /\ pc = "transcribe"
    /\ transcribe_calls' = Append(transcribe_calls, i)
    /\ IF ok
       THEN /\ transcript' = WhisperText(uploaded_files[i])
            /\ transcripts' =
                   LedgerAppend(transcripts, i, uploaded_files[i], transcript')
            /\ pc' = "synth"
            /\ UNCHANGED <<i, fs, errors, outcomes, tmpdir, abort_cause>>
       ELSE /\ transcript' = transcript
            /\ fs' = fs
            /\ errors' = Append(errors, uploaded_files[i])
            /\ outcomes' = Append(outcomes, "TranscriptionError")
            /\ transcripts' =
                   LedgerAppend(transcripts, i, uploaded_files[i], <<>>)
            /\ NextIteration
            /\ UNCHANGED <<tmpdir, abort_cause>>
    /\ UNCHANGED <<uploaded_files, custom_text, clicked, audio_downloads,
                   csv_downloads, warnings, custom_results, gtts_calls>>

\* Step 2: model.transcribe(input_filepath); on success the row is appended
\* and the transcript shown.
Transcribe(ok) ==
    /\ pc = "transcribe"
    /\ transcribe_calls' = Append(transcribe_calls, i)
    /\ IF ok
       THEN /\ transcript' = WhisperText(uploaded_files[i])
            /\ transcripts' =
                   LedgerAppend(transcripts, i, uploaded_files[i], transcript')
            /\ pc' = "synth"
            /\ UNCHANGED <<i, fs, errors, outcomes, tmpdir, abort_cause>>
       ELSE /\ transcript' = transcript
            /\ ExceptHandler("TranscriptionError", fs)
    /\ UNCHANGED <<uploaded_files, custom_text, clicked, audio_downloads,
                   csv_downloads, warnings, custom_results, gtts_calls>>

\* What the try block can do after the row is appended.
\*   "ok"       gTTS and save succeed, the audio download is offered
\*   "raise"    gTTS or save raises before any byte is written
\*   "partial"  save raises after the file was opened
\*   "present"  the file is saved, showing it raises
SynthResults == {"ok", "raise", "partial", "present"}

\* Step 3: gTTS(transcript), tts.save(tts_filepath), st.audio and
\* st.download_button, all inside the try block.
Synthesize(res) ==
    /\ pc = "synth"
    /\ gtts_calls' =
           Append(gtts_calls,
                  [flow |-> "batch", of |-> i, text |-> transcript,
                   lang |-> DefaultLang])
    /\ CASE res = "ok" ->
              /\ fs' = write(fs, tts_filepath, [kind |-> "tts", of |-> i])
              /\ audio_downloads' =
                     Append(audio_downloads,
                            [of |-> i, for |-> uploaded_files[i],
                             file_name |-> tts_filename(uploaded_files[i])])
              /\ outcomes' = Append(outcomes, "ok")
              /\ NextIteration
              /\ UNCHANGED <<transcripts, errors, tmpdir, abort_cause>>
         [] res = "raise" ->
              /\ ExceptHandler("SynthesisError", fs)
              /\ UNCHANGED audio_downloads
         [] res = "partial" ->
              /\ ExceptHandler("SynthesisError",
                     write(fs, tts_filepath, [kind |-> "partial", of |-> i]))
              /\ UNCHANGED audio_downloads
         [] res = "present" ->
              /\ ExceptHandler("PresentationError",
                     write(fs, tts_filepath, [kind |-> "tts", of |-> i]))
              /\ UNCHANGED audio_downloads
    /\ UNCHANGED <<uploaded_files, transcript, custom_text, clicked,
                   csv_downloads, warnings, custom_results, transcribe_calls>>

\* Step 4, after the loop: write all_transcripts.csv, offer it for
\* download, and leave the with block.
WriteLedger(ok) ==
    /\ pc = "csv"
    /\ IF ok
       THEN /\ csv_downloads' =
                   Append(csv_downloads, csv_serialize(transcripts))
            /\ fs' = TemporaryDirectoryExit(
                         write(fs, join(tmpdir, csv_filename),
                               [kind |-> "csv", of |-> 0]),
                         tmpdir)
            /\ tmpdir' = 0
            /\ pc' = "custom"
            /\ UNCHANGED <<i, transcripts, errors, outcomes, abort_cause>>
       ELSE /\ PropagateOut("LedgerWriteError", fs)
            /\ UNCHANGED csv_downloads
    /\ UNCHANGED <<uploaded_files, transcript, custom_text, clicked,
                   audio_downloads, warnings, custom_results,
                   transcribe_calls, gtts_calls>>

(***************************************************************************)
(* The custom text-to-speech form                                          *)
(***************************************************************************)

\* The widgets are read; a click with non-blank text enters the with block,
\* a click with blank text warns, and no click ends the script.
ReadCustom(text, click) ==
    /\ pc = "custom"
    /\ custom_text' = text
    /\ clicked' = click
    /\ IF click
       THEN IF strip(text) # <<>>
            THEN /\ tmpdir' = mkdtemp(fs, tmpdir)
                 /\ pc' = "custom_tts"
                 /\ UNCHANGED warnings
            ELSE /\ warnings' = warnings + 1
                 /\ pc' = "idle"
                 /\ UNCHANGED tmpdir
       ELSE /\ pc' = "idle"
            /\ UNCHANGED <<warnings, tmpdir>>
    /\ UNCHANGED <<uploaded_files, i, transcripts, transcript, fs, errors,
                   audio_downloads, csv_downloads, custom_results,
                   transcribe_calls, gtts_calls, outcomes, abort_cause>>

\* The try block of the custom form and the exit of its with block:
\* gTTS(custom_text, lang=accent), save, st.audio and st.download_button;
\* any exception is shown with st.error.
CustomTTS(accent, res) ==
    /\ pc = "custom_tts"
    /\ gtts_calls' =
           Append(gtts_calls,
                  [flow |-> "custom", of |-> 0, text |-> custom_text,
                   lang |-> accent])
    /\ LET path == join(tmpdir, custom_filename)
           after ==
               CASE res = "ok" -> write(fs, path, [kind |-> "tts", of |-> 0])
                 [] res = "raise" -> fs
                 [] res = "partial" ->
                        write(fs, path, [kind |-> "partial", of |-> 0])
                 [] res = "present" ->
                        write(fs, path, [kind |-> "tts", of |-> 0])
       IN  fs' = TemporaryDirectoryExit(after, tmpdir)
    /\ custom_results' =
           Append(custom_results, IF res = "ok" THEN "download" ELSE "error")
    /\ tmpdir' = 0
    /\ pc' = "idle"
    /\ UNCHANGED <<uploaded_files, i, transcripts, transcript, custom_text,
                   clicked, errors, audio_downloads, csv_downloads, warnings,
                   transcribe_calls, outcomes, abort_cause>>

Next ==
    \/ \E ups \in Batches : Rerun(ups)
    \/ \E ok \in BOOLEAN : Stage(ok)
    \/ \E ok \in BOOLEAN : Transcribe(ok)
    \/ \E res \in SynthResults : Synthesize(res)
    \/ \E ok \in BOOLEAN : WriteLedger(ok)
    \/ \E text \in Texts, click \in BOOLEAN : ReadCustom(text, click)
    \/ \E accent \in Accents, res \in SynthResults : CustomTTS(accent, res)

Spec == Init /\ [][Next]_vars

(***************************************************************************)
(* Vocabulary of the properties                                            *)
(***************************************************************************)

InLoop == pc \in {"stage", "transcribe", "synth"}

\* The batch section of a run with uploads has been left without an
\* uncaught error.
BatchCompleted ==
    uploaded_files # <<>> /\ pc \in {"custom", "custom_tts", "idle"}

\* The batch section of a run with uploads has been left, one way or another.
BatchEnded == uploaded_files # <<>> /\ ~InLoop /\ pc # "csv"

Called(j) == \E k \in DOMAIN transcribe_calls : transcribe_calls[k] = j

TranscribeFailed(j) ==
    j <= Len(outcomes) /\ outcomes[j] = "TranscriptionError"

\* Uploads whose model.transcribe call returned.
Transcribed ==
    {j \in 1..Len(uploaded_files) : Called(j) /\ ~TranscribeFailed(j)}

\* The k-th transcribed upload, in upload order.
NthTranscribed(k) ==
    CHOOSE j \in Transcribed : Cardinality({m \in Transcribed : m <= j}) = k

\* Uploads written to the temporary directory so far in this batch.
Staged ==
    IF uploaded_files = <<>> \/ tmpdir = 0 \/ ~(InLoop \/ pc = "csv")
    THEN {}
    ELSE IF pc = "stage" THEN 1..(i - 1) ELSE 1..i

Synthesized == {audio_downloads[k].of : k \in DOMAIN audio_downloads}

IsPrefix(s, t) == Len(s) <= Len(t) /\ SubSeq(t, 1, Len(s)) = s

\* Empty or made of whitespace only.
Blank(s) == \A k \in 1..Len(s) : s[k] \in Whitespace

CustomCalls == {k \in DOMAIN gtts_calls : gtts_calls[k].flow = "custom"}

(***************************************************************************)
(* Properties                                                              *)
(***************************************************************************)

\* C1: a failing transcription or synthesis call never ends the run: the
\* loop moves on to the next upload (or to the ledger after the last one),
\* and a batch that is not stopped by a staging or ledger-write error has
\* passed every upload to model.transcribe and offered the ledger.
C1_PartialFailureIsolation ==
    /\ abort_cause \notin
           {"TranscriptionError", "SynthesisError", "PresentationError"}
    /\ \A j \in 1..Len(outcomes) :
          outcomes[j] # "ok" =>
              IF j < Len(uploaded_files) THEN i > j ELSE ~InLoop
    /\ BatchCompleted =>
          /\ transcribe_calls = [k \in 1..Len(uploaded_files) |-> k]
          /\ Len(csv_downloads) = 1

C1_Witness ==
    /\ pc = "custom"
    /\ Len(uploaded_files) = 2
    /\ Len(outcomes) = 2
    /\ outcomes[1] = "TranscriptionError"
    /\ transcribe_calls = <<1, 2>>
    /\ Len(csv_downloads) = 1

\* C2: the ledger always holds exactly one row per upload whose
\* transcription call returned, whatever the later synthesis call did, and
\* the CSV offered at the end has exactly that many data rows.
C2_RowCountEqualsTranscribed ==
    /\ Len(transcripts) = Cardinality(Transcribed)
    /\ \A k \in DOMAIN csv_downloads :
          Len(csv_downloads[k]) = 1 + Cardinality(Transcribed)

C2_Witness ==
    /\ BatchCompleted
    /\ Len(csv_downloads) = 1
    /\ Len(csv_downloads[1]) = 2
    /\ \E j \in 1..Len(outcomes) : outcomes[j] = "SynthesisError"

\* C3 as claimed: the k-th row of the ledger carries number k.
C3_SuccessOnlyNumbering ==
    \A k \in 1..Len(transcripts) : transcripts[k][1] = k

\* C3 as amended: the number of the k-th row is the 1-based position, among
\* all uploads of the batch, of the k-th transcribed upload, and the CSV
\* carries that number.
C3_UploadPositionNumbering ==
    /\ \A k \in 1..Len(transcripts) :
          /\ transcripts[k][1] = NthTranscribed(k)
          /\ transcripts[k][2] = uploaded_files[transcripts[k][1]]
    /\ \A d \in DOMAIN csv_downloads :
          \A k \in 1..Len(transcripts) :
              csv_downloads[d][k + 1][1] = ToString(NthTranscribed(k))

C3_Witness ==
    /\ Len(csv_downloads) = 1
    /\ Len(outcomes) = 2
    /\ outcomes[1] = "TranscriptionError"
    /\ Len(transcripts) = 1
    /\ transcripts[1][1] = 2

\* C4: ledger rows are in upload order with strictly increasing numbers and
\* each row names its upload; within a run the ledger only grows at its end.
C4_RowsInUploadOrder ==
    /\ \A k, l \in 1..Len(transcripts) :
          k < l => transcripts[k][1] < transcripts[l][1]
    /\ \A k \in 1..Len(transcripts) :
          /\ transcripts[k][1] \in Transcribed
          /\ transcripts[k][2] = uploaded_files[transcripts[k][1]]

C4_AppendOnly ==
    pc \notin {"idle", "aborted"} => IsPrefix(transcripts, transcripts')

C4_OrderedAppendOnlyLedger ==
    [](C4_RowsInUploadOrder) /\ [][C4_AppendOnly]_vars

C4_Witness ==
    /\ Len(csv_downloads) = 1
    /\ Len(transcripts) = 2
    /\ transcripts[1][2] # transcripts[2][2]

\* C5 as claimed: a staging failure ends that file only; the run is still
\* in the loop or has offered the ledger.
C5_StagingFailureIsolated ==
    abort_cause = "StagingError" =>
        /\ pc # "aborted"
        /\ (InLoop \/ pc = "csv" \/ Len(csv_downloads) = 1)

\* C6: outside the with blocks no temporary file exists, whichever way the
\* block was left; inside one, every file lives in its directory.
C6_ScopedCleanup ==
    /\ pc \in {"idle", "aborted", "custom", "custom_tts"} => DOMAIN fs = {}
    /\ pc \in {"idle", "aborted", "custom"} => tmpdir = 0
    /\ (pc = "stage" /\ i = 1) => DOMAIN fs = {}
    /\ \A p \in DOMAIN fs : DirOf(p) = tmpdir

C6_Witness ==
    /\ pc = "aborted"
    /\ abort_cause = "StagingError"
    /\ i = 2
    /\ Len(audio_downloads) = 1
    /\ DOMAIN fs = {}

\* C7: a click with blank custom text warns and never reaches gTTS; gTTS is
\* reached in the custom form only after a click with non-blank text.
C7_CustomTextValidation ==
    /\ (clicked /\ Blank(custom_text)) =>
          /\ CustomCalls = {}
          /\ warnings = 1
          /\ pc = "idle"
    /\ (CustomCalls # {} \/ pc = "custom_tts") =>
          /\ clicked
          /\ ~Blank(custom_text)
          /\ warnings = 0

C7_Witness ==
    /\ clicked
    /\ custom_text = <<" ", " ">>
    /\ warnings = 1
    /\ CustomCalls = {}

\* C8 as claimed: the ledger is offered at most once, only after the last
\* iteration, and every run with uploads that has left the batch section
\* has offered the header row followed by the rows of the transcribed
\* uploads.
C8_LedgerAfterEveryBatch ==
    /\ Len(csv_downloads) <= 1
    /\ Len(csv_downloads) = 1 =>
          ~InLoop /\ pc # "csv" /\ Len(outcomes) = Len(uploaded_files)
    /\ BatchEnded =>
          /\ Len(csv_downloads) = 1
          /\ csv_downloads[1][1] = Header
          /\ Len(csv_downloads[1]) = 1 + Cardinality(Transcribed)

\* C9: an upload whose transcription failed has no ledger row, no gTTS
\* call and no audio download, and its name is shown in an error; an audio
\* download is offered only for an upload whose iteration ended without
\* any error.
C9_TranscriptionFailure ==
    /\ \A j \in 1..Len(outcomes) :
          TranscribeFailed(j) =>
              /\ \A k \in DOMAIN transcripts : transcripts[k][1] # j
              /\ \A k \in DOMAIN gtts_calls : gtts_calls[k].of # j
              /\ j \notin Synthesized
              /\ \E k \in DOMAIN errors : errors[k] = uploaded_files[j]
    /\ Len(errors) = Cardinality({j \in 1..Len(outcomes) : outcomes[j] # "ok"})
    /\ \A k \in DOMAIN audio_downloads :
          LET j == audio_downloads[k].of
          IN  /\ j \in Transcribed
              /\ j <= Len(outcomes)
              /\ outcomes[j] = "ok"
              /\ audio_downloads[k].for = uploaded_files[j]

C9_Witness ==
    /\ Len(outcomes) = 2
    /\ outcomes[1] = "ok"
    /\ TranscribeFailed(2)
    /\ Synthesized = {1}
    /\ errors = <<uploaded_files[2]>>

\* C10 as claimed: distinct uploads of a batch are staged at distinct paths,
\* none of which is the path of another upload's synthesized audio, so every
\* staged file still holds its own upload's bytes.
C10_StagedPathsUnique ==
    \A p \in Staged :
        /\ \A q \in Staged :
              p # q =>
                  /\ join(tmpdir, uploaded_files[p])
                         # join(tmpdir, uploaded_files[q])
                  /\ join(tmpdir, uploaded_files[p])
                         # join(tmpdir, tts_filename(uploaded_files[q]))
        /\ fs[join(tmpdir, uploaded_files[p])] = [kind |-> "upload", of |-> p]

====
